---- MODULE Spec2Model ----
(***************************************************************************)
(* calculate_emi of src/app02.py: the periodic payment (EMI) of a          *)
(* fixed-rate loan and its amortization schedule.                          *)
(*                                                                         *)
(* The function computes in Python floats (IEEE-754 binary64, round to     *)
(* nearest, ties to even).  The model keeps that arithmetic and scales its *)
(* precision down: a number is zero or m * 2^e with Prec significant bits, *)
(* and every operation rounds its exact result to nearest, ties to even,   *)
(* as the hardware does.  The exponent range is not modelled (no overflow  *)
(* to inf, no subnormals, one zero).                                       *)
(***************************************************************************)
EXTENDS Integers, Sequences, FiniteSets, TLC

\* Significant bits of a float (53 in binary64).
Prec == 8

\* Largest tenure_months the model enumerates.
MaxTenure == 4

\* Working precision inside pow.
ExtPrec == Prec + 12

---------------------------------------------------------------------------
\* Floating-point arithmetic

Abs(n) == IF n < 0 THEN -n ELSE n

Sign(n) == IF n < 0 THEN -1 ELSE IF n = 0 THEN 0 ELSE 1

Pow2(k) == 2 ^ k

\* Number of bits of a natural number below 2^30.
BitLen(n) == CHOOSE k \in 0..30 : n < Pow2(k) /\ (k = 0 \/ n >= Pow2(k - 1))

Zero == [m |-> 0, e |-> 0]

\* n * 2^e rounded to p significant bits, to nearest, ties to even.
RoundTo(p, n, e) ==
    IF n = 0 THEN Zero
    ELSE LET a == Abs(n)
             L == BitLen(a)
         IN  IF L <= p
             THEN [m |-> Sign(n) * a * Pow2(p - L), e |-> e - (p - L)]
             ELSE LET k  == L - p
                      q  == a \div Pow2(k)
                      r  == a % Pow2(k)
                      h  == Pow2(k - 1)
                      q2 == IF r > h \/ (r = h /\ q % 2 = 1) THEN q + 1 ELSE q
                  IN  IF q2 = Pow2(p)
                      THEN [m |-> Sign(n) * Pow2(p - 1), e |-> e + k + 1]
                      ELSE [m |-> Sign(n) * q2, e |-> e + k]

Round(n, e) == RoundTo(Prec, n, e)

\* int -> float, as Python converts an int operand of a float operation.
FromInt(n) == Round(n, 0)

FNeg(a) == [m |-> -a.m, e |-> a.e]

FAdd(a, b) ==
    IF a.m = 0 THEN b
    ELSE IF b.m = 0 THEN a
    ELSE LET hi == IF a.e >= b.e THEN a ELSE b
             lo == IF a.e >= b.e THEN b ELSE a
             d  == hi.e - lo.e
         IN  IF d >= Prec + 2 THEN hi
             ELSE Round(hi.m * Pow2(d) + lo.m, lo.e)

FSub(a, b) == FAdd(a, FNeg(b))

FMul(a, b) == Round(a.m * b.m, a.e + b.e)

\* a / b for b # 0; the remainder is kept as a sticky bit below the quotient.
FDiv(a, b) ==
    IF a.m = 0 THEN Zero
    ELSE LET num == Abs(a.m) * Pow2(Prec + 2)
             q   == num \div Abs(b.m)
             s   == IF num % Abs(b.m) = 0 THEN 0 ELSE 1
         IN  Round(Sign(a.m) * Sign(b.m) * (2 * q + s), a.e - b.e - (Prec + 2) - 1)

\* x ** n in the working precision: the C library's pow is accurate to under
\* one unit in the last place, which a product carried with ExtPrec bits and
\* rounded once at the end reproduces.
RECURSIVE ExtPow(_, _)
ExtPow(x, n) ==
    IF n = 0 THEN RoundTo(ExtPrec, 1, 0)
    ELSE LET y == ExtPow(x, n - 1)
         IN  RoundTo(ExtPrec, y.m * x.m, y.e + x.e)

FPow(x, n) == LET y == ExtPow(x, n) IN Round(y.m, y.e)

---------------------------------------------------------------------------
\* calculate_emi(principal, rate_annual, tenure_months)

\* Arguments the model enumerates (ints, exactly representable).
Principals == {FromInt(n) : n \in {-100, 0, 1, 3, 100, 250, 1000}}

Rates == {FromInt(n) : n \in {-12, 0, 1, 12, 14, 24, 120, 13952}}

Tenures == 0..MaxTenure

VARIABLES
    pc,              \* "start", "loop", "frame", "returned", "raised"
    loan_amount,     \* the caller's argument for principal
    principal,       \* the local name principal, rebound in the loop
    rate_annual,
    tenure_months,
    monthly_emi,
    total_interest,
    total_payable,
    balance,
    schedule,        \* list of the records appended so far
    month,
    ret,             \* the returned tuple, <<>> until the function returns
    raised           \* the exception that left the function, "" if none

vars == <<pc, loan_amount, principal, rate_annual, tenure_months, monthly_emi,
          total_interest, total_payable, balance, schedule, month, ret, raised>>

One == FromInt(1)

RateMonthly(rate) == FDiv(FDiv(rate, FromInt(100)), FromInt(12))

\* (1 + rate_monthly)**tenure_months
Growth(rate, n) == FPow(FAdd(One, RateMonthly(rate)), n)

\* ((1 + rate_monthly)**tenure_months) - 1
Denominator(rate, n) == FSub(Growth(rate, n), One)

\* The float division of line 20 or line 29 raises on a zero divisor.
DividesByZero(rate, n) ==
    IF rate = Zero THEN n = 0 ELSE n # 0 /\ Denominator(rate, n) = Zero

MonthlyEmi(p, rate, n) ==
    IF rate = Zero
    THEN FDiv(p, FromInt(n))
    ELSE FDiv(FMul(FMul(p, RateMonthly(rate)), Growth(rate, n)), Denominator(rate, n))

TotalInterest(p, rate, n) ==
    IF rate = Zero
    THEN Zero
    ELSE FSub(FMul(MonthlyEmi(p, rate, n), FromInt(n)), p)

\* TotalPayable with a fault: the interest is left out of the total.
TotalPayableWithoutInterest(p, interest) == p

TotalPayable(p, interest) == FAdd(p, interest)

InterestPaid(bal, rate) ==
    IF rate = Zero THEN Zero ELSE FMul(bal, RateMonthly(rate))

PrincipalPaid(emi, interest) == FSub(emi, interest)

\* balance and principal_paid after the final-period adjustment; bal is the
\* balance already reduced by paid.
\* AdjustedPrincipalPaid with a fault: the last payment does not absorb the
\* residual.
UnadjustedPrincipalPaid(m, n, bal, paid) == paid

AdjustedPrincipalPaid(m, n, bal, paid) == IF m = n THEN FAdd(bal, paid) ELSE paid

\* AdjustedBalance with a fault: the last balance is left as the subtraction
\* made it.
UnadjustedBalance(m, n, bal) == bal

AdjustedBalance(m, n, bal) == IF m = n THEN Zero ELSE bal

Record(m, start, emi, paid, interest, bal) ==
    [Month |-> m, StartingBalance |-> start, EMI |-> emi, PrincipalPaid |-> paid,
     InterestPaid |-> interest, EndingBalance |-> bal]

\* The value principal is rebound to at the end of an iteration.
NextPrincipal(bal, paid) == FAdd(bal, paid)

\* Series.cumsum(): running sums in row order.
RECURSIVE CumSum(_)
CumSum(xs) ==
    IF xs = <<>> THEN <<>>
    ELSE LET front == CumSum(SubSeq(xs, 1, Len(xs) - 1))
         IN  Append(front, IF front = <<>> THEN xs[Len(xs)]
                           ELSE FAdd(front[Len(front)], xs[Len(xs)]))

Column(rows, name) == [i \in 1..Len(rows) |-> rows[i][name]]

\* schedule_df with its three cumulative columns.
DataFrame(rows) ==
    LET ci == CumSum(Column(rows, "InterestPaid"))
        cp == CumSum(Column(rows, "PrincipalPaid"))
    IN  [i \in 1..Len(rows) |->
            [Month |-> rows[i].Month,
             StartingBalance |-> rows[i].StartingBalance,
             EMI |-> rows[i].EMI,
             PrincipalPaid |-> rows[i].PrincipalPaid,
             InterestPaid |-> rows[i].InterestPaid,
             EndingBalance |-> rows[i].EndingBalance,
             CumulativeInterest |-> ci[i],
             CumulativePrincipal |-> cp[i],
             TotalPaid |-> FAdd(ci[i], cp[i])]]

Init ==
    /\ pc = "start"
    /\ loan_amount \in Principals
    /\ principal = loan_amount
    /\ rate_annual \in Rates
    /\ tenure_months \in Tenures
    /\ monthly_emi = Zero
    /\ total_interest = Zero
    /\ total_payable = Zero
    /\ balance = Zero
    /\ schedule = <<>>
    /\ month = 0
    /\ ret = <<>>
    /\ raised = ""

\* Lines 18-36: the payment, the totals and the loop's initial state.
ComputePayment ==
    /\ pc = "start"
    /\ IF DividesByZero(rate_annual, tenure_months)
       THEN /\ pc' = "raised"
            /\ raised' = "ZeroDivisionError"
            /\ UNCHANGED <<monthly_emi, total_interest, total_payable, balance,
                           month, ret>>
       ELSE IF rate_annual # Zero /\ tenure_months = 0
       THEN /\ pc' = "returned"
            /\ ret' = <<Zero, Zero, <<>>>>
            /\ UNCHANGED <<monthly_emi, total_interest, total_payable, balance,
                           month, raised>>
       ELSE /\ monthly_emi' = MonthlyEmi(principal, rate_annual, tenure_months)
            /\ total_interest' = TotalInterest(principal, rate_annual, tenure_months)
            /\ total_payable' = TotalPayable(principal, total_interest')
            /\ balance' = principal
            /\ month' = 1
            /\ pc' = "loop"
            /\ UNCHANGED <<ret, raised>>
    /\ UNCHANGED <<loan_amount, principal, rate_annual, tenure_months, schedule>>

\* Lines 38-63: one iteration of the schedule loop.
ScheduleStep ==
    /\ pc = "loop"
    /\ month <= tenure_months
    /\ LET interest_paid  == InterestPaid(balance, rate_annual)
           principal_paid == PrincipalPaid(monthly_emi, interest_paid)
           reduced        == FSub(balance, principal_paid)
           paid           == AdjustedPrincipalPaid(month, tenure_months, reduced,
                                                   principal_paid)
           bal            == AdjustedBalance(month, tenure_months, reduced)
       IN  /\ schedule' = Append(schedule,
                                 Record(month, principal, monthly_emi, paid,
                                        interest_paid, bal))
           /\ balance' = bal
           /\ principal' = NextPrincipal(bal, paid)
    /\ month' = month + 1
    /\ pc' = IF month = tenure_months THEN "frame" ELSE "loop"
    /\ UNCHANGED <<loan_amount, rate_annual, tenure_months, monthly_emi,
                   total_interest, total_payable, ret, raised>>

\* Lines 65-72: the data frame, its cumulative columns and the return.
BuildFrame ==
    /\ pc = "frame"
    /\ ret' = <<monthly_emi, total_interest, total_payable, DataFrame(schedule)>>
    /\ pc' = "returned"
    /\ UNCHANGED <<loan_amount, principal, rate_annual, tenure_months, monthly_emi,
                   total_interest, total_payable, balance, schedule, month, raised>>

Next == ComputePayment \/ ScheduleStep \/ BuildFrame

Spec == Init /\ [][Next]_vars

---------------------------------------------------------------------------
\* Properties of the returned schedule

\* Exact comparisons of floats: a difference rounds to zero only if it is zero.
FLt(a, b) == FSub(a, b).m < 0

FLe(a, b) == FSub(a, b).m <= 0

FAbs(a) == [m |-> Abs(a.m), e |-> a.e]

\* |a - b| <= 2^-TolShift * |b|: the relative tolerance of the schedule's
\* approximate identities (1e-6 against binary64's 2^-53), in proportion to Prec.
TolShift == (3 * Prec) \div 8

Within(a, b) ==
    LET d == FAbs(FSub(a, b))
    IN  FLe([m |-> d.m, e |-> IF d.m = 0 THEN 0 ELSE d.e + TolShift], FAbs(b))

\* The function returned its four values: payment, interest, total, frame.
Returned == pc = "returned" /\ Len(ret) = 4

Rows == ret[4]

ValidInputs ==
    /\ FLt(Zero, loan_amount)
    /\ FLe(Zero, rate_annual)
    /\ tenure_months >= 1

\* The balance the loan has when period i starts.
BalanceBefore(i) == IF i = 1 THEN loan_amount ELSE Rows[i - 1].EndingBalance

\* C1: for valid inputs the last record of the returned schedule, the one of
\* month tenure_months, has an ending balance of exactly zero, whatever
\* residual the running balance held before the adjustment.
C1_FinalBalanceZero ==
    (Returned /\ ValidInputs) =>
        /\ Rows[Len(Rows)].Month = tenure_months
        /\ Rows[Len(Rows)].EndingBalance = Zero

\* A schedule of a valid loan was returned whose last period left a residual:
\* the principal paid in the last record is not EMI - interest.
C1_Witness ==
    /\ Returned
    /\ ValidInputs
    /\ rate_annual # Zero
    /\ LET last == Rows[Len(Rows)]
       IN  last.PrincipalPaid # FSub(last.EMI, last.InterestPaid)

\* C2: in every record of the returned schedule principal paid plus interest
\* paid equals the EMI, within the relative tolerance, and the EMI is the
\* returned payment in every record.
C2_PaymentSplit ==
    (Returned /\ ValidInputs) =>
        \A i \in 1..Len(Rows) :
            /\ Rows[i].EMI = ret[1]
            /\ Within(FAdd(Rows[i].PrincipalPaid, Rows[i].InterestPaid), Rows[i].EMI)

\* C3: in every record the ending balance is the previous ending balance (the
\* input principal for the first record) minus the principal paid of the
\* record, the last record included.
C3_BalanceRecurrence ==
    (Returned /\ ValidInputs) =>
        \A i \in 1..Len(Rows) :
            Rows[i].EndingBalance = FSub(BalanceBefore(i), Rows[i].PrincipalPaid)

\* C4: for valid inputs the schedule has tenure_months records, numbered 1,
\* 2, ... in order, and the ending balances never increase and are never
\* negative.
C4_BalancesDecrease ==
    (Returned /\ ValidInputs) =>
        /\ Len(Rows) = tenure_months
        /\ \A i \in 1..Len(Rows) :
              /\ Rows[i].Month = i
              /\ FLe(Rows[i].EndingBalance, BalanceBefore(i))
              /\ FLe(Zero, Rows[i].EndingBalance)

\* C5: the returned total payable is the caller's principal plus the returned
\* total interest, and the returned total interest is the one computed from the
\* caller's principal: rebinding principal in the loop changes neither.
C5_TotalPayable ==
    Returned =>
        /\ ret[3] = FAdd(loan_amount, ret[2])
        /\ ret[2] = TotalInterest(loan_amount, rate_annual, tenure_months)

\* The function returned after the loop rebound principal to another value
\* than the caller's, on a loan with interest.
C5_Witness ==
    /\ Returned
    /\ principal # loan_amount
    /\ ret[2] # Zero

\* C6 as claimed, for a positive principal: at rate 0 the payment is principal / tenure_months, the total
\* interest is 0, and every record, the last included, has interest paid 0 and
\* principal paid equal to the payment.
C6_ZeroRateAllEqual ==
    (Returned /\ ValidInputs /\ rate_annual = Zero) =>
        /\ ret[1] = FDiv(loan_amount, FromInt(tenure_months))
        /\ ret[2] = Zero
        /\ \A i \in 1..Len(Rows) :
              /\ Rows[i].InterestPaid = Zero
              /\ Rows[i].PrincipalPaid = ret[1]

\* C6 as amended: at rate 0 the payment is principal / tenure_months, the total
\* interest is 0, every record has interest paid 0, every record but the last
\* has principal paid equal to the payment, and the last record's principal
\* paid is (b - payment) + payment, b being the balance before the last period.
C6_ZeroRateLastAbsorbs ==
    (Returned /\ rate_annual = Zero /\ tenure_months >= 1) =>
        /\ ret[1] = FDiv(loan_amount, FromInt(tenure_months))
        /\ ret[2] = Zero
        /\ \A i \in 1..Len(Rows) :
              /\ Rows[i].InterestPaid = Zero
              /\ Rows[i].PrincipalPaid =
                    IF i < Len(Rows) THEN ret[1]
                    ELSE FAdd(FSub(BalanceBefore(i), ret[1]), ret[1])

\* An interest-free schedule was returned whose last principal paid is not the
\* payment.
C6_Witness ==
    /\ Returned
    /\ rate_annual = Zero
    /\ tenure_months >= 2
    /\ Rows[Len(Rows)].PrincipalPaid # ret[1]

\* C7: for valid inputs the last cumulative principal equals the input
\* principal and the last cumulative interest equals the returned total
\* interest, each within the relative tolerance.
C7_CumulativeTotals ==
    (Returned /\ ValidInputs) =>
        /\ Within(Rows[Len(Rows)].CumulativePrincipal, loan_amount)
        /\ Within(Rows[Len(Rows)].CumulativeInterest, ret[2])

\* C8: called with a term of 0, at any rate, zero or not, the function
\* signals InvalidTermError and produces no schedule.
C8_ZeroTermRejected ==
    (tenure_months = 0 /\ FLt(Zero, loan_amount) /\ FLe(Zero, rate_annual)
        /\ pc # "start") =>
        /\ pc = "raised"
        /\ raised = "InvalidTermError"
        /\ ret = <<>>

\* C9: called with principal <= 0 the function signals InvalidPrincipalError,
\* called with a negative rate it signals InvalidRateError, and in both cases
\* it computes no payment and no schedule.
C9_InvalidInputsRejected ==
    /\ (FLe(loan_amount, Zero) /\ FLe(Zero, rate_annual) /\ tenure_months >= 1
           /\ pc # "start") =>
          /\ pc = "raised"
          /\ raised = "InvalidPrincipalError"
          /\ schedule = <<>>
          /\ ret = <<>>
    /\ (FLt(rate_annual, Zero) /\ FLt(Zero, loan_amount) /\ tenure_months >= 1
           /\ pc # "start") =>
          /\ pc = "raised"
          /\ raised = "InvalidRateError"
          /\ schedule = <<>>
          /\ ret = <<>>

\* C10: in every record the starting balance is the balance at the start of
\* its period: the input principal in the first record, the ending balance of
\* the record before in every later one.
C10_StartingBalance ==
    (Returned /\ ValidInputs) =>
        \A i \in 1..Len(Rows) : Rows[i].StartingBalance = BalanceBefore(i)

====
